---- MODULE Spec2Model ----
(***************************************************************************)
(* RabbitMQQueueSensor (sensors/queues_sensor.py): a sensor that consumes  *)
(* messages from RabbitMQ queues over one pika BlockingConnection channel  *)
(* and dispatches each one to the host as a rabbitmq.new_message trigger.  *)
(*                                                                         *)
(* Python values are modelled as follows.  bytes and str are sequences of  *)
(* naturals (byte values, resp. code points).  A Python object is a record *)
(* [type |-> <type name>, val |-> <content>].  None and '' are the strings *)
(* "None" and "".  The result of a call that may raise is a record         *)
(* [raised |-> BOOLEAN, exc |-> <exception class>, value |-> <object>].    *)
(* Library semantics are those of Python 3 and pika 1.x.                   *)
(***************************************************************************)
EXTENDS Integers, Sequences, FiniteSets, TLC

\* ------------------------------------------------------------------ bounds
\* number of deliveries the broker makes in one behaviour
MaxDeliveries == 3
\* number of times the host calls cleanup() in one behaviour
MaxCleanup == 1
\* number of times a supervisor starts the sensor again in one behaviour
MaxRestarts == 1

\* ------------------------------------------------------- model input sets
\* b"hello"
B_hello == <<104, 101, 108, 108, 111>>
\* b'{"id":1}'
B_json_obj == <<123, 34, 105, 100, 34, 58, 49, 125>>
\* b'\xff'
B_bad_utf8 == <<255>>
\* b'h\xc3\xa9' ("h" followed by e-acute)
B_accent == <<104, 195, 169>>
\* b'C\x01h.'  (pickle: SHORT_BINBYTES b'h', STOP)
B_pickle_bytes == <<67, 1, 104, 46>>
\* b'C\x01\xff.'  (pickle: SHORT_BINBYTES b'\xff', STOP)
B_pickle_bad == <<67, 1, 255, 46>>
\* b'}.'  (pickle: EMPTY_DICT, STOP)
B_pickle_dict == <<125, 46>>

Bodies == {B_hello, B_json_obj, B_bad_utf8, B_accent, B_pickle_bytes, B_pickle_bad, B_pickle_dict}

\* config['sensor_config']['rabbitmq_queue_sensor']['queues']: a list of
\* names, or a single name that is not a list
QueueConfigs ==
    { [islist |-> TRUE,  list |-> <<"a", "b">>,  name |-> ""],
      [islist |-> TRUE,  list |-> <<"orders">>,  name |-> ""],
      [islist |-> FALSE, list |-> <<>>,          name |-> "jobs"] }

\* config[...]['deserialization_method']
MethodConfigs == {"None", "", "json", "pickle", "xml"}

\* ------------------------------------------------------ Python primitives
Ok(v) == [raised |-> FALSE, exc |-> "", value |-> v]
Raise(e) == [raised |-> TRUE, exc |-> e, value |-> [type |-> "NoneType", val |-> <<>>]]

PyBytes(b) == [type |-> "bytes", val |-> b]
PyStr(s) == [type |-> "str", val |-> s]

\* truth value of a configuration string (None and '' are falsy)
Truthy(x) == x \notin {"None", ""}

\* bytes.decode('utf-8') on the one- and two-byte forms (no payload of
\* Bodies starts a three- or four-byte form); ok = FALSE is UnicodeDecodeError
RECURSIVE utf8_decode(_)
utf8_decode(b) ==
    IF b = <<>> THEN [ok |-> TRUE, val |-> <<>>]
    ELSE IF b[1] < 128
         THEN LET r == utf8_decode(Tail(b))
              IN  IF r.ok THEN [ok |-> TRUE, val |-> <<b[1]>> \o r.val] ELSE r
    ELSE IF b[1] \in 194..223 /\ Len(b) >= 2 /\ b[2] \in 128..191
         THEN LET r == utf8_decode(SubSeq(b, 3, Len(b)))
              IN  IF r.ok
                  THEN [ok |-> TRUE, val |-> <<(b[1] - 192) * 64 + (b[2] - 128)>> \o r.val]
                  ELSE r
    ELSE [ok |-> FALSE, val |-> <<>>]

\* value.decode('utf-8'): only bytes objects have the attribute
py_decode(v) ==
    IF v.type # "bytes" THEN Raise("AttributeError")
    ELSE LET d == utf8_decode(v.val)
         IN  IF d.ok THEN Ok(PyStr(d.val)) ELSE Raise("UnicodeDecodeError")

\* --------------------------------------------------------------- json.loads
\* The decoder on the JSON subset the payloads of Bodies are written in:
\* unsigned integers, strings without escapes, arrays and objects, with no
\* white space.  A parse result is [ok, value, next]: next is the index after
\* the value.
JFail == [ok |-> FALSE, value |-> [type |-> "NoneType", val |-> <<>>], next |-> 0]
JOk(v, n) == [ok |-> TRUE, value |-> v, next |-> n]

\* index of the quote that closes the string whose first character is s[i],
\* 0 when there is none
RECURSIVE json_string_end(_, _)
json_string_end(s, i) ==
    IF i > Len(s) THEN 0
    ELSE IF s[i] = 34 THEN i
    ELSE IF s[i] = 92 \/ s[i] < 32 THEN 0
    ELSE json_string_end(s, i + 1)

json_string(s, i) ==
    IF i > Len(s) \/ s[i] # 34 THEN JFail
    ELSE LET e == json_string_end(s, i + 1)
         IN  IF e = 0 THEN JFail ELSE JOk(PyStr(SubSeq(s, i + 1, e - 1)), e + 1)

\* index after the run of digits that starts at s[i]
RECURSIVE json_digits_end(_, _)
json_digits_end(s, i) ==
    IF i <= Len(s) /\ s[i] \in 48..57 THEN json_digits_end(s, i + 1) ELSE i

RECURSIVE json_digits_value(_, _, _, _)
json_digits_value(s, i, e, acc) ==
    IF i >= e THEN acc ELSE json_digits_value(s, i + 1, e, acc * 10 + (s[i] - 48))

json_int(s, i) ==
    IF s[i] = 48 THEN JOk([type |-> "int", val |-> 0], i + 1)
    ELSE LET e == json_digits_end(s, i)
         IN  JOk([type |-> "int", val |-> json_digits_value(s, i, e, 0)], e)

RECURSIVE json_value(_, _), json_members(_, _, _), json_elements(_, _, _)
json_value(s, i) ==
    IF i > Len(s) THEN JFail
    ELSE IF s[i] = 123
         THEN IF i + 1 <= Len(s) /\ s[i + 1] = 125
              THEN JOk([type |-> "dict", val |-> <<>>], i + 2)
              ELSE json_members(s, i + 1, <<>>)
    ELSE IF s[i] = 91
         THEN IF i + 1 <= Len(s) /\ s[i + 1] = 93
              THEN JOk([type |-> "list", val |-> <<>>], i + 2)
              ELSE json_elements(s, i + 1, <<>>)
    ELSE IF s[i] = 34 THEN json_string(s, i)
    ELSE IF s[i] \in 48..57 THEN json_int(s, i)
    ELSE JFail

\* "key":value pairs of an object, from s[i], up to and including the '}'
json_members(s, i, acc) ==
    LET k == json_string(s, i)
    IN  IF ~k.ok \/ k.next > Len(s) \/ s[k.next] # 58 THEN JFail
        ELSE LET v == json_value(s, k.next + 1)
                 items == Append(acc, <<k.value, v.value>>)
             IN  IF ~v.ok \/ v.next > Len(s) THEN JFail
                 ELSE IF s[v.next] = 125 THEN JOk([type |-> "dict", val |-> items], v.next + 1)
                 ELSE IF s[v.next] = 44 THEN json_members(s, v.next + 1, items)
                 ELSE JFail

\* elements of an array, from s[i], up to and including the ']'
json_elements(s, i, acc) ==
    LET v == json_value(s, i)
        items == Append(acc, v.value)
    IN  IF ~v.ok \/ v.next > Len(s) THEN JFail
        ELSE IF s[v.next] = 93 THEN JOk([type |-> "list", val |-> items], v.next + 1)
        ELSE IF s[v.next] = 44 THEN json_elements(s, v.next + 1, items)
        ELSE JFail

\* json.loads(b) for a bytes argument: decode the text, parse one value and
\* reject trailing data.  Both exceptions are subclasses of ValueError.
json_loads(b) ==
    LET d == utf8_decode(b)
    IN  IF ~d.ok THEN Raise("UnicodeDecodeError")
        ELSE LET r == json_value(d.val, 1)
             IN  IF r.ok /\ r.next = Len(d.val) + 1 THEN Ok(r.value)
                 ELSE Raise("JSONDecodeError")

\* ------------------------------------------------------------- pickle.loads
\* The unpickler on the opcodes the payloads of Bodies use: PROTO (0x80 n),
\* NONE 'N', EMPTY_LIST ']', EMPTY_DICT '}', SHORT_BINBYTES 'C' n <n bytes>
\* and STOP '.'.  Any other opcode is an UnpicklingError, data that ends
\* before STOP an EOFError.
RECURSIVE pickle_run(_, _, _)
pickle_run(b, i, stack) ==
    IF i > Len(b) THEN Raise("EOFError")
    ELSE IF b[i] = 46
         THEN IF stack = <<>> THEN Raise("UnpicklingError") ELSE Ok(stack[Len(stack)])
    ELSE IF b[i] = 128
         THEN IF i + 1 > Len(b) THEN Raise("EOFError") ELSE pickle_run(b, i + 2, stack)
    ELSE IF b[i] = 78
         THEN pickle_run(b, i + 1, Append(stack, [type |-> "NoneType", val |-> <<>>]))
    ELSE IF b[i] = 93
         THEN pickle_run(b, i + 1, Append(stack, [type |-> "list", val |-> <<>>]))
    ELSE IF b[i] = 125
         THEN pickle_run(b, i + 1, Append(stack, [type |-> "dict", val |-> <<>>]))
    ELSE IF b[i] = 67
         THEN IF i + 1 > Len(b) \/ i + 1 + b[i + 1] > Len(b) THEN Raise("UnpicklingError")
              ELSE pickle_run(b, i + 2 + b[i + 1],
                              Append(stack, PyBytes(SubSeq(b, i + 2, i + 1 + b[i + 1]))))
    ELSE Raise("UnpicklingError")

pickle_loads(b) == pickle_run(b, 1, <<>>)

\* exception classes that "except Exception" catches: every class the two
\* deserializers raise here derives from Exception
ExceptionSubclasses ==
    {"UnicodeDecodeError", "JSONDecodeError", "UnpicklingError", "EOFError",
     "AttributeError", "KeyError", "ValueError"}

\* ------------------------------------------------------------ module level
\* DESERIALIZATION_FUNCTIONS = {'json': json.loads, 'pickle': pickle.loads}
DESERIALIZATION_FUNCTIONS == [m \in {"json", "pickle"} |->
                                 IF m = "json" THEN "json.loads" ELSE "pickle.loads"]

\* calling one of the functions the table holds
CallFunction(f, b) == IF f = "json.loads" THEN json_loads(b) ELSE pickle_loads(b)

\* RabbitMQQueueSensor._deserialize_body with self.deserialization_method = m
\* (_deserialize_body_no_guard: without the early return of lines 129-130)
_deserialize_body_no_guard(m, body) ==
    IF m \notin DOMAIN DESERIALIZATION_FUNCTIONS THEN Raise("KeyError")
    ELSE LET r == CallFunction(DESERIALIZATION_FUNCTIONS[m], body)
         IN  IF r.raised /\ r.exc \in ExceptionSubclasses THEN Ok(PyBytes(body))
             ELSE r
_deserialize_body(m, body) ==
    IF ~Truthy(m) THEN Ok(PyBytes(body))
    ELSE IF m \notin DOMAIN DESERIALIZATION_FUNCTIONS THEN Raise("KeyError")
    ELSE LET r == CallFunction(DESERIALIZATION_FUNCTIONS[m], body)
         IN  IF r.raised /\ r.exc \in ExceptionSubclasses THEN Ok(PyBytes(body))
             ELSE r

\* ------------------------------------------------------------------- state
VARIABLES
    config,                  \* the configuration handed to the constructor
    pc,                      \* where the sensor is in its life cycle
    queues,                  \* self.queues
    deserialization_method,  \* self.deserialization_method
    conn,                    \* self.conn: "None", "open" or "closed"
    channel,                 \* self.channel and what was set up on it
    pending,                 \* deliveries received, not yet given to a callback
    unacked,                 \* delivery tags the broker holds unacknowledged
    next_tag,                \* delivery tag of the next delivery on the channel
    cur,                     \* the delivery whose callback is in progress
    trace,                   \* the calls and outcomes so far, in order
    cleanup_calls,           \* number of cleanup() calls so far
    next_msg,                \* identity of the next new message of the broker
    requeued,                \* messages the broker took back when a connection closed
    restarts                 \* number of times the sensor was started again

vars == <<config, pc, queues, deserialization_method, conn, channel, pending,
          unacked, next_tag, cur, trace, cleanup_calls, next_msg, requeued, restarts>>

NoChannel == [state |-> "None", prefetch_count |-> 0, declared |-> <<>>, consumers |-> <<>>]
NoMsg == [tag |-> 0, queue |-> "", body |-> <<>>]

\* one entry of trace: an operation, the delivery tag it concerns (0 when it
\* concerns none) and its arguments
Ev(op, tag, args) == [op |-> op, tag |-> tag, args |-> args]
NoArgs == [none |-> TRUE]

Init ==
    /\ config \in [queues : QueueConfigs, deserialization_method : MethodConfigs]
    /\ pc = "new"
    /\ queues = <<>>
    /\ deserialization_method = "unset"
    /\ conn = "None"
    /\ channel = NoChannel
    /\ pending = <<>>
    /\ unacked = {}
    /\ next_tag = 1
    /\ cur = NoMsg
    /\ trace = <<>>
    /\ cleanup_calls = 0
    /\ next_msg = 1
    /\ requeued = {}
    /\ restarts = 0

\* ------------------------------------------------------------- constructor
\* the check of __init__ on the configured method: TRUE when it is accepted
\* (supported_method_any: a constructor without the check)
supported_method_any(m) == TRUE
supported_method(m) == ~Truthy(m) \/ m \in DOMAIN DESERIALIZATION_FUNCTIONS

\* RabbitMQQueueSensor.__init__
Construct ==
    /\ pc = "new"
    /\ queues' = IF config.queues.islist THEN config.queues.list
                                         ELSE <<config.queues.name>>
    /\ deserialization_method' = config.deserialization_method
    /\ IF supported_method(config.deserialization_method)
       THEN /\ pc' = "constructed"
            /\ trace' = Append(trace, Ev("__init__", 0, NoArgs))
       ELSE /\ pc' = "rejected"
            /\ trace' = Append(trace, Ev("raise", 0, [exc |-> "ValueError", from |-> "__init__"]))
    /\ conn' = "None"
    /\ channel' = NoChannel
    /\ UNCHANGED <<config, pending, unacked, next_tag, cur, cleanup_calls,
                   next_msg, requeued, restarts>>

\* ------------------------------------------------------------------- setup
\* prefetch_count of the basic_qos call
prefetch_count == 1

\* channel.basic_qos(prefetch_count=n) on channel ch; a channel starts with
\* no limit (0)  (basic_qos_not_set: a setup without the call)
basic_qos_not_set(ch, n) == ch
basic_qos(ch, n) == [ch EXCEPT !.prefetch_count = n]

\* the default argument queue_copy=queue of the callback defined in iteration
\* i of the loop over self.queues: evaluated when the function is defined
\* (callback_queue_late: the loop variable read when the callback runs)
callback_queue_late(qs, i) == qs[Len(qs)]
callback_queue_copy(qs, i) == qs[i]

\* the calls of the loop over self.queues, from iteration i on
\* (SetupQueueCalls_consume_first: a loop that subscribes before it declares)
RECURSIVE SetupQueueCalls_consume_first(_, _)
SetupQueueCalls_consume_first(qs, i) ==
    IF i > Len(qs) THEN <<>>
    ELSE << Ev("basic_consume", 0, [queue |-> qs[i],
                                    queue_copy |-> callback_queue_copy(qs, i)]),
            Ev("queue_declare", 0, [queue |-> qs[i], durable |-> TRUE]) >>
         \o SetupQueueCalls_consume_first(qs, i + 1)
RECURSIVE SetupQueueCalls(_, _)
SetupQueueCalls(qs, i) ==
    IF i > Len(qs) THEN <<>>
    ELSE << Ev("queue_declare", 0, [queue |-> qs[i], durable |-> TRUE]),
            Ev("basic_consume", 0, [queue |-> qs[i],
                                    queue_copy |-> callback_queue_copy(qs, i)]) >>
         \o SetupQueueCalls(qs, i + 1)

\* RabbitMQQueueSensor.setup; connected is the outcome of pika.BlockingConnection
Setup(connected) ==
    /\ pc = "constructed"
    /\ cleanup_calls = 0
    /\ IF connected
       THEN /\ conn' = "open"
            /\ channel' = [basic_qos([NoChannel EXCEPT !.state = "open"], prefetch_count)
                             EXCEPT !.declared = queues,
                                    !.consumers = [i \in 1..Len(queues) |->
                                        [queue |-> queues[i],
                                         queue_copy |-> callback_queue_copy(queues, i)]]]
            /\ trace' = trace \o << Ev("connect", 0, [ok |-> TRUE]),
                                    Ev("channel", 0, NoArgs),
                                    Ev("basic_qos", 0, [prefetch_count |-> prefetch_count]) >>
                              \o SetupQueueCalls(queues, 1)
            /\ pc' = "setup_done"
       ELSE \* the except clause logs and falls through; self.conn is still
            \* None, so self.conn.channel() raises
            /\ conn' = "None"
            /\ channel' = channel
            /\ trace' = trace \o << Ev("connect", 0, [ok |-> FALSE]),
                                    Ev("raise", 0, [exc |-> "AttributeError", from |-> "setup"]) >>
            /\ pc' = "setup_failed"
    /\ UNCHANGED <<config, queues, deserialization_method, pending, unacked,
                   next_tag, cur, cleanup_calls, next_msg, requeued, restarts>>

\* --------------------------------------------------------------------- run
\* RabbitMQQueueSensor.run: start_consuming in a green thread, and wait
\* (Run_restart: a run that starts consuming again after an error ended it)
Run_restart ==
    /\ pc \in {"setup_done", "crashed"}
    /\ cleanup_calls = 0
    /\ pc' = "consuming"
    /\ trace' = Append(trace, Ev("start_consuming", 0, NoArgs))
    /\ UNCHANGED <<config, queues, deserialization_method, conn, channel, pending,
                   unacked, next_tag, cur, cleanup_calls, next_msg, requeued, restarts>>
Run ==
    /\ pc = "setup_done"
    /\ cleanup_calls = 0
    /\ pc' = "consuming"
    /\ trace' = Append(trace, Ev("start_consuming", 0, NoArgs))
    /\ UNCHANGED <<config, queues, deserialization_method, conn, channel, pending,
                   unacked, next_tag, cur, cleanup_calls, next_msg, requeued, restarts>>

\* what an exception exc that leaves a callback does to run: start_consuming
\* does not catch it, the green thread dies and gt.wait() raises it to the
\* caller of run; pc is where the sensor is afterwards
\* (loop_after_raise_resumed: a consuming loop that goes on after the error)
loop_after_raise_resumed(exc) == [pc |-> "consuming", events |-> <<>>]
loop_after_raise(exc) ==
    [pc |-> "crashed", events |-> <<Ev("raise", 0, [exc |-> exc, from |-> "run"])>>]

\* the broker sends a message of queue q to the channel: only to a consumer
\* of q, and only while the unacknowledged deliveries of the channel are
\* below its prefetch count (0 is no limit)
BrokerDeliver(q, body) ==
    /\ pc \in {"consuming", "dispatching"}
    /\ conn = "open"
    /\ next_msg <= MaxDeliveries
    /\ \E i \in 1..Len(channel.consumers) : channel.consumers[i].queue = q
    /\ channel.prefetch_count = 0 \/ Cardinality(unacked) < channel.prefetch_count
    /\ pending' = Append(pending, [tag |-> next_tag, queue |-> q, body |-> body])
    /\ unacked' = unacked \cup {next_tag}
    /\ next_tag' = next_tag + 1
    /\ next_msg' = next_msg + 1
    /\ trace' = Append(trace, Ev("deliver", next_tag,
                                 [queue |-> q, body |-> body, msg |-> next_msg,
                                  redelivered |-> FALSE]))
    /\ UNCHANGED <<config, pc, queues, deserialization_method, conn, channel, cur,
                   cleanup_calls, requeued, restarts>>

\* the broker sends again a message it took back, under a new delivery tag
Redeliver(m) ==
    /\ m \in requeued
    /\ pc \in {"consuming", "dispatching"}
    /\ conn = "open"
    /\ \E i \in 1..Len(channel.consumers) : channel.consumers[i].queue = m.queue
    /\ channel.prefetch_count = 0 \/ Cardinality(unacked) < channel.prefetch_count
    /\ pending' = Append(pending, [tag |-> next_tag, queue |-> m.queue, body |-> m.body])
    /\ unacked' = unacked \cup {next_tag}
    /\ next_tag' = next_tag + 1
    /\ requeued' = requeued \ {m}
    /\ trace' = Append(trace, Ev("deliver", next_tag,
                                 [queue |-> m.queue, body |-> m.body, msg |-> m.msg,
                                  redelivered |-> TRUE]))
    /\ UNCHANGED <<config, pc, queues, deserialization_method, conn, channel, cur,
                   cleanup_calls, next_msg, restarts>>

\* the queue_copy bound in the callback that was registered for queue q
ConsumerOf(q) ==
    LET i == CHOOSE j \in 1..Len(channel.consumers) : channel.consumers[j].queue = q
    IN  channel.consumers[i].queue_copy

\* the trigger of the dispatch call
\* (trigger_name_short: the trigger without the pack prefix)
trigger_name_short == "new_message"
trigger_name == "rabbitmq.new_message"

\* RabbitMQQueueSensor._dispatch_trigger up to the call of dispatch: the
\* consuming loop gives the oldest pending delivery to its callback
CallbackStart ==
    /\ pc = "consuming"
    /\ pending # <<>>
    /\ LET m == Head(pending)
           queue == ConsumerOf(m.queue)
           d == _deserialize_body(deserialization_method, m.body)
           t == py_decode(d.value)
           called == Ev("callback", m.tag, [queue |-> queue, body |-> m.body])
       IN  /\ pending' = Tail(pending)
           /\ IF d.raised \/ t.raised
              THEN \* the exception leaves the callback before the try block
                   /\ LET exc == IF d.raised THEN d.exc ELSE t.exc
                      IN  /\ trace' = trace \o << called,
                                        Ev("raise", m.tag, [exc |-> exc, from |-> "callback"]) >>
                                    \o loop_after_raise(exc).events
                          /\ pc' = loop_after_raise(exc).pc
                   /\ cur' = NoMsg
              ELSE /\ trace' = trace \o << called,
                                 Ev("dispatch", m.tag,
                                    [trigger |-> trigger_name,
                                     payload |-> [queue |-> queue, body |-> t.value.val]]) >>
                   /\ pc' = "dispatching"
                   /\ cur' = m
    /\ UNCHANGED <<config, queues, deserialization_method, conn, channel, unacked,
                   next_tag, cleanup_calls, next_msg, requeued, restarts>>

\* the exception that leaves _dispatch_trigger once the finally clause has
\* run ("" for none): try/finally does not catch what dispatch raised
\* (after_finally_swallowed: what an except clause that passes would leave)
after_finally_swallowed(raised) == ""
after_finally(raised) == IF raised THEN "DispatchError" ELSE ""

\* what _dispatch_trigger does for delivery tag t from the end of the dispatch
\* call on, the connection being open: dispatch has returned or raised, the
\* finally clause acknowledges, the callback returns or raises
\* (callback_tail_ack_first: an acknowledgment sent before dispatch has ended)
callback_tail_ack_first(t, raised) ==
    << Ev("basic_ack", t, [delivery_tag |-> t]),
       Ev(IF raised THEN "dispatch_raised" ELSE "dispatch_returned", t, NoArgs),
       IF after_finally(raised) # ""
       THEN Ev("raise", t, [exc |-> after_finally(raised), from |-> "callback"])
       ELSE Ev("return", t, NoArgs) >>
callback_tail(t, raised) ==
    << Ev(IF raised THEN "dispatch_raised" ELSE "dispatch_returned", t, NoArgs),
       Ev("basic_ack", t, [delivery_tag |-> t]),
       IF after_finally(raised) # ""
       THEN Ev("raise", t, [exc |-> after_finally(raised), from |-> "callback"])
       ELSE Ev("return", t, NoArgs) >>

\* the finally clause of _dispatch_trigger and what follows it; raised tells
\* whether dispatch raised.  basic_ack on a closed connection raises.
DispatchEnds(raised) ==
    /\ pc = "dispatching"
    /\ LET outcome == Ev(IF raised THEN "dispatch_raised" ELSE "dispatch_returned",
                         cur.tag, NoArgs)
       IN  IF conn = "open"
           THEN /\ unacked' = unacked \ {cur.tag}
                /\ trace' = trace \o callback_tail(cur.tag, raised)
                              \o (IF after_finally(raised) # ""
                                  THEN loop_after_raise(after_finally(raised)).events
                                  ELSE <<>>)
                /\ pc' = IF after_finally(raised) # ""
                         THEN loop_after_raise(after_finally(raised)).pc
                         ELSE "consuming"
           ELSE /\ unacked' = unacked
                /\ trace' = trace \o << outcome,
                              Ev("raise", cur.tag,
                                 [exc |-> "ChannelWrongStateError", from |-> "callback"]) >>
                              \o loop_after_raise("ChannelWrongStateError").events
                /\ pc' = loop_after_raise("ChannelWrongStateError").pc
    /\ cur' = NoMsg
    /\ UNCHANGED <<config, queues, deserialization_method, conn, channel, pending,
                   next_tag, cleanup_calls, next_msg, requeued, restarts>>

\* ----------------------------------------------------------------- cleanup
\* the message of the delivery that has tag t on the current channel (the
\* latest delivery with that tag)
MessageOfTag(t) ==
    LET ds == {i \in 1..Len(trace) : trace[i].op = "deliver" /\ trace[i].tag = t}
        last == CHOOSE i \in ds : \A j \in ds : j <= i
    IN  [msg |-> trace[last].args.msg, queue |-> trace[last].args.queue,
         body |-> trace[last].args.body]

\* the test "if self.conn" of cleanup: a connection object is truthy, open or
\* closed  (conn_truthy_always: a cleanup without the test)
conn_truthy_always(c) == TRUE
conn_truthy(c) == c # "None"

\* RabbitMQQueueSensor.cleanup.  Closing the connection ends a consuming loop
\* that waits for messages, and the broker takes back what is unacknowledged.
\* self.conn is not reset: a later call closes again, and close() on a
\* closed connection raises.
Cleanup ==
    /\ pc \notin {"new", "rejected"}
    /\ cleanup_calls < MaxCleanup
    /\ cleanup_calls' = cleanup_calls + 1
    /\ IF conn_truthy(conn)
       THEN /\ conn' = "closed"
            /\ trace' = IF conn = "open"
                        THEN Append(trace, Ev("close", 0, [was |-> conn]))
                        ELSE trace \o << Ev("close", 0, [was |-> conn]),
                                         Ev("raise", 0, [exc |-> "ConnectionWrongStateError",
                                                         from |-> "cleanup"]) >>
            /\ pending' = <<>>
            /\ unacked' = {}
            /\ requeued' = requeued \cup {MessageOfTag(t) : t \in unacked}
            /\ pc' = IF pc = "consuming" THEN "stopped" ELSE pc
       ELSE /\ trace' = Append(trace, Ev("cleanup", 0, NoArgs))
            /\ UNCHANGED <<conn, pending, unacked, pc, requeued>>
    /\ UNCHANGED <<config, queues, deserialization_method, channel, next_tag, cur,
                   next_msg, restarts>>

\* a supervisor starts the component again once the connection is closed and
\* the consuming loop has ended: a new process, with the same configuration,
\* facing the same broker
Restart ==
    /\ restarts < MaxRestarts
    /\ conn = "closed"
    /\ pc \notin {"consuming", "dispatching"}
    /\ restarts' = restarts + 1
    /\ pc' = "new"
    /\ queues' = <<>>
    /\ deserialization_method' = "unset"
    /\ conn' = "None"
    /\ channel' = NoChannel
    /\ pending' = <<>>
    /\ next_tag' = 1
    /\ cur' = NoMsg
    /\ cleanup_calls' = 0
    /\ trace' = Append(trace, Ev("restart", 0, NoArgs))
    /\ UNCHANGED <<config, unacked, next_msg, requeued>>

Next ==
    \/ Construct
    \/ \E connected \in BOOLEAN : Setup(connected)
    \/ Run
    \/ \E q \in {"a", "b", "orders", "jobs"}, body \in Bodies : BrokerDeliver(q, body)
    \/ CallbackStart
    \/ \E raised \in BOOLEAN : DispatchEnds(raised)
    \/ Cleanup

Spec == Init /\ [][Next]_vars

\* the sensor under a supervisor that restarts it, with a broker that sends
\* again what it took back
NextRestart ==
    \/ Next
    \/ Restart
    \/ \E m \in requeued : Redeliver(m)

SpecRestart == Init /\ [][NextRestart]_vars

\* ------------------------------------------------------ reading the trace
Idx == 1..Len(trace)

\* indices of the entries with operation op for delivery tag t
At(op, t) == {i \in Idx : trace[i].op = op /\ trace[i].tag = t}

\* delivery tags whose callback was invoked
CallbackTags == {trace[i].tag : i \in {j \in Idx : trace[j].op = "callback"}}

\* the subsequence of delivery tags of the entries with operation op
TagsOf(op) ==
    LET sel == SelectSeq(trace, LAMBDA e : e.op = op)
    IN  [i \in 1..Len(sel) |-> sel[i].tag]

\* the connection was closed before entry i was recorded
ClosedBefore(i) == \E k \in 1..(i - 1) : trace[k].op = "close"

\* the callback for delivery tag t has returned or raised at entry i
CallbackEnd(t, i) ==
    /\ trace[i].tag = t
    /\ \/ trace[i].op = "return"
       \/ trace[i].op = "raise" /\ trace[i].args.from = "callback"

\* the queue and the body of the delivery with tag t
DeliveryOf(t) == trace[CHOOSE i \in Idx : trace[i].op = "deliver" /\ trace[i].tag = t].args

\* ------------------------------------------------------------------ claims

\* C1: every message given to the callback while the consumer is active (the
\* connection not closed) has exactly one basic_ack with its delivery tag
\* once its callback has ended, whatever the mode, the payload and the
\* outcome of dispatch.
C1_ExactlyOneAck ==
    \A t \in CallbackTags :
        \A i \in Idx :
            (CallbackEnd(t, i) /\ ~ClosedBefore(i)) => Cardinality(At("basic_ack", t)) = 1

C3_QueueOfEvent ==
    /\ \A k \in 1..Len(channel.consumers) :
           /\ channel.consumers[k].queue = queues[k]
           /\ channel.consumers[k].queue_copy = queues[k]
    /\ \A i \in Idx :
           trace[i].op = "dispatch" =>
               trace[i].args.payload.queue = DeliveryOf(trace[i].tag).queue

\* C3 witness: with queues ["a", "b"], an event was forwarded for a delivery
\* on "a", which is not the last configured queue.
C3_Witness ==
    /\ queues = <<"a", "b">>
    /\ \E i \in Idx :
           /\ trace[i].op = "dispatch"
           /\ DeliveryOf(trace[i].tag).queue = "a"

\* C4: whenever no delivery is waiting or in a callback (on an open
\* connection), the sequence of acknowledged delivery tags equals the
\* sequence of delivered tags.
C4_AckedEqualsDelivered ==
    (conn = "open" /\ pending = <<>> /\ pc # "dispatching") =>
        TagsOf("basic_ack") = TagsOf("deliver")

DecodedAt(i) == py_decode(_deserialize_body(deserialization_method, trace[i].args.body).value)

\* C6: when UTF-8 decoding of the (possibly deserialized) body raises, the
\* callback does not fail: the event is dispatched all the same.
C6_DecodeFailureFallsBack ==
    \A i \in Idx :
        (trace[i].op = "callback" /\ DecodedAt(i).raised
                                  /\ DecodedAt(i).exc = "UnicodeDecodeError") =>
            /\ At("dispatch", trace[i].tag) # {}
            /\ \A j \in At("raise", trace[i].tag) : trace[j].args.exc # "UnicodeDecodeError"

\* C7: under mode json or pickle, a payload the deserializer rejects does not
\* make the callback raise: the callback goes on to dispatch an event for it,
\* whose body is the raw delivered body, decoded as text.
C7_RejectedPayloadForwardsRaw ==
    \A i \in Idx :
        (/\ trace[i].op = "callback"
         /\ deserialization_method \in {"json", "pickle"}
         /\ CallFunction(DESERIALIZATION_FUNCTIONS[deserialization_method],
                         trace[i].args.body).raised) =>
            /\ trace[i + 1].op = "dispatch"
            /\ trace[i + 1].tag = trace[i].tag
            /\ utf8_decode(trace[i].args.body).ok
            /\ trace[i + 1].args.payload.body = utf8_decode(trace[i].args.body).val

\* C8: under mode json, a payload with valid structured content results in
\* one forwarded event for the message.
C8_ValidJsonForwarded ==
    \A i \in Idx :
        (/\ trace[i].op = "callback"
         /\ deserialization_method = "json"
         /\ ~json_loads(trace[i].args.body).raised) =>
            Cardinality(At("dispatch", trace[i].tag)) = 1

\* C9: with mode None or '', a delivered body that is valid UTF-8 gives
\* exactly one dispatched event, whose body is the UTF-8 text of the raw
\* bytes and whose queue is the source queue; b"hello" on "orders" gives
\* {"queue": "orders", "body": "hello"}.
C9_NoModeForwardsText ==
    \A i \in Idx :
        (/\ trace[i].op = "callback"
         /\ deserialization_method \in {"None", ""}
         /\ trace[i].args.body \in {B_hello, B_accent, B_json_obj, B_pickle_bytes,
                                    B_pickle_dict}) =>
            /\ Cardinality(At("dispatch", trace[i].tag)) = 1
            /\ \A j \in At("dispatch", trace[i].tag) :
                   /\ trace[j].args.trigger = "rabbitmq.new_message"
                   /\ trace[j].args.payload.queue = DeliveryOf(trace[i].tag).queue
                   /\ trace[j].args.payload.body =
                         CASE trace[i].args.body = B_hello -> <<104, 101, 108, 108, 111>>
                           [] trace[i].args.body = B_accent -> <<104, 233>>
                           [] OTHER -> trace[i].args.body
                   /\ (trace[i].args.body = B_hello /\ DeliveryOf(trace[i].tag).queue = "orders")
                          => trace[j].args.payload =
                                 [queue |-> "orders", body |-> <<104, 101, 108, 108, 111>>]

\* C9 witness: with no deserialization method, b"hello" was delivered on
\* "orders" and an event was dispatched for it.
C9_Witness ==
    /\ deserialization_method = "None"
    /\ \E i \in Idx :
           /\ trace[i].op = "dispatch"
           /\ DeliveryOf(trace[i].tag).queue = "orders"
           /\ DeliveryOf(trace[i].tag).body = B_hello

\* C10: a non-empty unsupported deserialization method makes the constructor
\* raise ValueError and nothing else ever happens; a constructed sensor has
\* a supported method or none, and no callback raises KeyError.
C10_UnknownModeRejected ==
    /\ (config.deserialization_method \notin {"None", "", "json", "pickle"} /\ pc # "new") =>
           /\ pc = "rejected"
           /\ trace = <<Ev("raise", 0, [exc |-> "ValueError", from |-> "__init__"])>>
    /\ pc \notin {"new", "rejected"} =>
           deserialization_method \in {"None", "", "json", "pickle"}
    /\ \A i \in Idx : trace[i].op = "raise" => trace[i].args.exc # "KeyError"

\* C10 witness: the constructor rejected the method "xml".
C10_Witness ==
    /\ config.deserialization_method = "xml"
    /\ pc = "rejected"

\* C11: when opening the connection fails in setup, setup raises a connection
\* error (the pika error of the failed connect) to its caller, and connect is
\* attempted once only.
C11_ConnectFailureReported ==
    \A i \in Idx :
        (trace[i].op = "connect" /\ ~trace[i].args.ok) =>
            /\ Cardinality({j \in Idx : trace[j].op = "connect"}) = 1
            /\ i + 1 <= Len(trace)
            /\ trace[i + 1].op = "raise"
            /\ trace[i + 1].args.from = "setup"
            /\ trace[i + 1].args.exc = "AMQPConnectionError"

\* a connection was opened by setup
Opened == \E i \in Idx : trace[i].op = "connect" /\ trace[i].args.ok

\* the close() calls recorded so far
Closes == {i \in Idx : trace[i].op = "close"}

\* C12: once cleanup has been called, the connection that setup opened has
\* been closed exactly once (also after an error ended the consuming loop);
\* when no connection was opened, cleanup calls no close() at all.
C12_CleanupClosesOnce ==
    /\ cleanup_calls = 0 => Closes = {}
    /\ (cleanup_calls >= 1 /\ Opened) =>
           /\ Cardinality({i \in Closes : trace[i].args.was = "open"}) = 1
           /\ conn = "closed"
    /\ (cleanup_calls >= 1 /\ ~Opened) =>
           /\ Closes = {}
           /\ conn = "None"
    /\ cleanup_calls = 1 => Cardinality(Closes) <= 1

\* C12 witness: an error left a callback, and cleanup then closed the
\* connection.
C12_Witness ==
    /\ cleanup_calls = 1
    /\ conn = "closed"
    /\ \E i \in Idx, j \in Idx :
           /\ i < j
           /\ trace[i].op = "raise" /\ trace[i].args.from = "callback"
           /\ trace[j].op = "close"

\* C13: the connection is never closed while a callback is in flight: every
\* callback that began before a close() has returned or raised before it.
C13_CallbackEndsBeforeClose ==
    \A j \in Closes :
        \A i \in 1..(j - 1) :
            trace[i].op = "callback" =>
                \E k \in (i + 1)..(j - 1) : CallbackEnd(trace[i].tag, k)

\* the queue names of the configuration: the elements of a list, or the one
\* name that is not a list
ConfiguredQueues ==
    IF config.queues.islist
    THEN {config.queues.list[i] : i \in 1..Len(config.queues.list)}
    ELSE {config.queues.name}

\* indices of the entries with operation op
Ops(op) == {i \in Idx : trace[i].op = op}

\* C14: after a successful connect, setup has opened exactly one channel, set
\* prefetch 1 on it before any basic_consume, and for every configured queue
\* declared it durable before subscribing its callback; every configured
\* queue has exactly one subscription and no other queue has one.
C14_SetupOrder ==
    Opened =>
        /\ Cardinality(Ops("channel")) = 1
        /\ Cardinality(Ops("basic_qos")) = 1
        /\ \A i \in Ops("basic_qos") :
               /\ trace[i].args.prefetch_count = 1
               /\ \E j \in Ops("channel") : j < i
               /\ \E j \in Ops("connect") : j < i
               /\ \A k \in Ops("basic_consume") \cup Ops("queue_declare") : i < k
        /\ \A q \in ConfiguredQueues :
               /\ Cardinality({i \in Ops("basic_consume") : trace[i].args.queue = q}) = 1
               /\ \A i \in Ops("basic_consume") :
                      trace[i].args.queue = q =>
                          \E j \in Ops("queue_declare") :
                              /\ j < i
                              /\ trace[j].args.queue = q
                              /\ trace[j].args.durable
        /\ \A i \in Ops("basic_consume") : trace[i].args.queue \in ConfiguredQueues
        /\ channel.prefetch_count = 1
        /\ Len(channel.consumers) = Cardinality(ConfiguredQueues)
        /\ {channel.consumers[k].queue : k \in 1..Len(channel.consumers)} = ConfiguredQueues

\* C14 witness: setup has run for the configuration whose queues value is the
\* single name "jobs", not a list.
C14_Witness ==
    /\ ~config.queues.islist
    /\ pc = "setup_done"
    /\ \E i \in Ops("basic_consume") : trace[i].args.queue = "jobs"

\* C15: a message is acknowledged only after its dispatch call was invoked
\* and has returned or raised; a callback starts only when every message
\* given to a callback before it has been acknowledged; and dispatch is
\* invoked at most once per delivered message.
C15_StepsOrdered ==
    /\ \A k \in Ops("basic_ack") :
           \E i \in At("dispatch", trace[k].tag) :
               \E j \in (i + 1)..(k - 1) :
                   /\ trace[j].op \in {"dispatch_returned", "dispatch_raised"}
                   /\ trace[j].tag = trace[k].tag
    /\ \A i \in Ops("callback") :
           \A j \in 1..(i - 1) :
               trace[j].op = "callback" =>
                   \E k \in (j + 1)..(i - 1) :
                       trace[k].op = "basic_ack" /\ trace[k].tag = trace[j].tag
    /\ \A t \in CallbackTags : Cardinality(At("dispatch", t)) <= 1

\* C15 witness: two messages have gone through dispatch and acknowledgment,
\* one after the other.
C15_Witness ==
    /\ pc = "consuming"
    /\ At("basic_ack", 1) # {}
    /\ At("basic_ack", 2) # {}

\* C16: every call of dispatch has the trigger "rabbitmq.new_message" and a
\* payload with exactly the fields queue and body, queue being one of the
\* configured queue names and body a text.
C16_EventShape ==
    \A i \in Ops("dispatch") :
        /\ DOMAIN trace[i].args = {"trigger", "payload"}
        /\ trace[i].args.trigger = "rabbitmq.new_message"
        /\ DOMAIN trace[i].args.payload = {"queue", "body"}
        /\ trace[i].args.payload.queue \in ConfiguredQueues
        /\ trace[i].args.payload.body \in Seq(Nat)

\* C16 witness: under mode pickle, the pickled bytes b'h' were dispatched as
\* the text "h".
C16_Witness ==
    /\ deserialization_method = "pickle"
    /\ \E i \in Ops("dispatch") :
           /\ DeliveryOf(trace[i].tag).body = B_pickle_bytes
           /\ trace[i].args.payload.body = <<104>>

\* the callbacks are subscribed on an open connection
Subscribed == conn = "open" /\ Len(channel.consumers) > 0

\* the sensor is inside start_consuming
InLoop == pc \in {"consuming", "dispatching"}

C18_ErrorEndsLoop ==
    \A i \in Idx :
        (trace[i].op = "raise" /\ trace[i].args.from = "callback") =>
            /\ pc = "crashed"
            /\ i + 1 <= Len(trace)
            /\ trace[i + 1] = Ev("raise", 0, [exc |-> trace[i].args.exc, from |-> "run"])
            /\ \A j \in (i + 2)..Len(trace) :
                   \/ trace[j].op \in {"close", "cleanup"}
                   \/ trace[j].op = "raise" /\ trace[j].args.from = "cleanup"
            /\ Cardinality(Ops("connect")) = 1
            /\ Cardinality(Ops("start_consuming")) = 1

\* C18 witness: an error raised before the dispatch call (a decoded JSON
\* object has no decode) has left the callback and run.
C18_Witness ==
    /\ pc = "crashed"
    /\ Ops("dispatch") = {}
    /\ trace[Len(trace)] = Ev("raise", 0, [exc |-> "AttributeError", from |-> "run"])

\* the identity of the message handed to the dispatch call at position i of
\* the trace: that of the latest delivery before i with the same delivery tag
DispatchedMessage(i) ==
    LET ds == {k \in 1..(i - 1) : trace[k].op = "deliver" /\ trace[k].tag = trace[i].tag}
        last == CHOOSE k \in ds : \A j \in ds : j <= k
    IN  trace[last].args.msg

\* C19: no message for which the dispatch call was invoked is handed to the
\* dispatch call a second time, with a broker that sends again the messages
\* left unacknowledged when a connection closes and a supervisor that starts
\* the sensor again.
C19_NoSecondDispatch ==
    \A i \in Ops("dispatch") : \A j \in Ops("dispatch") :
        i # j => DispatchedMessage(i) # DispatchedMessage(j)

====
